---- MODULE Spec2Model ----
(***************************************************************************)
(* A model of the JSON formatter of src/src/format.rs (struct Formatter).  *)
(* The recursive-descent scanner is a state machine over an explicit call  *)
(* stack: every frame is one active Rust function, every action one step   *)
(* of one function.  Bytes are the integers 0..255, byte offsets are       *)
(* 0-based as in the source (the byte at offset p is input[p + 1]).        *)
(***************************************************************************)
EXTENDS Integers, Sequences, FiniteSets, TLC

VARIABLES
    input,   \* Formatter.input: the bytes to prettify
    color,   \* Formatter.color: "NoColor" or "AnsiCode"
    pos,     \* Formatter.pos: the cursor, a byte offset
    level,   \* Formatter.level: the indentation level
    out,     \* the sink (`out: &mut impl Write`), as bytes
    stack,   \* the active calls, innermost first
    result,  \* what the outermost call returned, or Running
    oob,     \* TRUE once a slice index >= input.len() has been read
    call,    \* the entry point the driver called
    origin,  \* the driver's original buffer (the first invocation's input)
    prev     \* the driver's record of the previous invocation, or NoRun

vars == <<input, color, pos, level, out, stack, result, oob, call, origin, prev>>

-----------------------------------------------------------------------------
(* Bytes the source names as literals (b'"', b'{', 0xEF ...).              *)

B == [ tab |-> 9, lf |-> 10, cr |-> 13, sp |-> 32, quote |-> 34, plus |-> 43,
       comma |-> 44, minus |-> 45, dot |-> 46, slash |-> 47, d0 |-> 48,
       d1 |-> 49, d9 |-> 57, colon |-> 58, upA |-> 65, upE |-> 69, upF |-> 70,
       lbracket |-> 91, bslash |-> 92, rbracket |-> 93, a |-> 97, b |-> 98,
       e |-> 101, f |-> 102, l |-> 108, n |-> 110, r |-> 114, s |-> 115,
       t |-> 116, u |-> 117, x |-> 120, lbrace |-> 123, rbrace |-> 125,
       esc |-> 27, m |-> 109, semi |-> 59, d3 |-> 51, d2 |-> 50, d4 |-> 52,
       d5 |-> 53, d6 |-> 54 ]

\* Option<u8>::None, as peek_byte and next_byte return it at the end of input.
None == 0 - 1

MAX_INDENT_LEVEL == 100

\* SPACES.len(): the blank buffer write_indent copies from.
SPACES_LEN == 65

-----------------------------------------------------------------------------
(* FormatError and FormatResult.  One record shape for every variant:      *)
(*   a    the byte (InvalidByte, InvalidEscape), the level (MaxIndentLevel)*)
(*        or the length (InvalidUtf8);  off  the BytePos;  bytes  the      *)
(*        [u8; 4] of InvalidUtf8.                                          *)

Res(kind, a, off, bytes) == [kind |-> kind, a |-> a, off |-> off, bytes |-> bytes]

Running == Res("Running", 0, 0, <<>>)
Ok == Res("Ok", 0, 0, <<>>)
Eof == Res("Eof", 0, 0, <<>>)
InvalidByte(byte, off) == Res("InvalidByte", byte, off, <<>>)
InvalidEscape(byte, off) == Res("InvalidEscape", byte, off, <<>>)
InvalidUtf8(bytes, n, off) == Res("InvalidUtf8", n, off, bytes)
MaxIndentLevel(lv, off) == Res("MaxIndentLevel", lv, off, <<>>)
\* A failed debug_assert!, an index out of range or an integer underflow.
Panic == Res("Panic", 0, 0, <<>>)

IsErr(r) == r.kind \notin {"Running", "Ok"}

-----------------------------------------------------------------------------
(* The byte cursor.                                                        *)

\* peek_byte: self.input.get(self.pos.0).copied(), at cursor p.
peek_byte(p) == IF p < Len(input) THEN input[p + 1] ELSE None

\* The pattern b' ' | b'\n' | b'\r' | b'\t' of skip_whitespace.
IsWhitespace(byte) == byte \in {B.sp, B.lf, B.cr, B.tab}

\* skip_whitespace: the cursor after the loop, started at cursor p.
RECURSIVE skip_whitespace(_)
skip_whitespace(p) ==
    IF IsWhitespace(peek_byte(p)) THEN skip_whitespace(p + 1) ELSE p

\* The length test of skip_start_bom: TRUE when it returns before indexing.
BomTooShort_Two == Len(input) < 2
BomTooShort == Len(input) < 3

\* skip_start_bom: the cursor it leaves and whether it indexed past the end.
\* `&&` evaluates left to right and stops at the first mismatch.
skip_start_bom ==
    IF BomTooShort
    THEN [pos |-> pos, oob |-> FALSE]
    ELSE LET rd(i) == IF i < Len(input) THEN input[i + 1] ELSE None
             r0 == rd(0) = 239
             r1 == r0 /\ rd(1) = 187
             r2 == r1 /\ rd(2) = 191
             last == IF r1 THEN 2 ELSE IF r0 THEN 1 ELSE 0
         IN  [pos |-> IF r2 THEN 3 ELSE pos, oob |-> last >= Len(input)]

\* expect_byte at cursor p: next_byte consumes the byte it finds (if any), and
\* the error carries the offset of that byte.
expect_byte_After(p, expected) ==
    LET byte == peek_byte(p) IN
    IF byte = None THEN [pos |-> p, err |-> Eof]
    ELSE IF byte = expected THEN [pos |-> p + 1, err |-> Ok]
    ELSE [pos |-> p + 1, err |-> InvalidByte(byte, p + 1)]

expect_byte(p, expected) ==
    LET byte == peek_byte(p) IN
    IF byte = None THEN [pos |-> p, err |-> Eof]
    ELSE IF byte = expected THEN [pos |-> p + 1, err |-> Ok]
    ELSE [pos |-> p + 1, err |-> InvalidByte(byte, (p + 1) - 1)]

\* The `for &b in b"..." { self.expect_byte(b)?; }` loop of the literals.
RECURSIVE expect_bytes(_, _)
expect_bytes(p, lit) ==
    IF lit = <<>> THEN [pos |-> p, err |-> Ok]
    ELSE LET r == expect_byte(p, Head(lit)) IN
         IF r.err # Ok THEN r ELSE expect_bytes(r.pos, Tail(lit))

\* The guard of inc_level: TRUE when the level is at the cap.
AtMaxLevel_OffByOne(lv) == lv > MAX_INDENT_LEVEL
AtMaxLevel(lv) == lv >= MAX_INDENT_LEVEL

\* dec_level: self.level -= 1.
dec_level_Keep(lv) == lv
dec_level(lv) == lv - 1

\* slice_str_unchecked's debug assertion on a span.
SpanOk(start, end) == start <= end /\ end <= Len(input)

\* slice_str_unchecked: &self.input[start..end].
slice_str_unchecked_Late(start, end) == SubSeq(input, start + 2, end)
slice_str_unchecked(start, end) == SubSeq(input, start + 1, end)

-----------------------------------------------------------------------------
(* The output emitter: what each write_* method appends to the sink.       *)

\* ESC [ <digits> m
Sgr(digits) == <<B.esc, B.lbracket>> \o digits \o <<B.m>>

SgrPunct == Sgr(<<B.d1, B.semi, B.d3, B.d9>>)
SgrKey == Sgr(<<B.d1, B.semi, B.d3, B.d4>>)
SgrString == Sgr(<<B.d0, B.semi, B.d3, B.d2>>)
SgrBool == Sgr(<<B.d0, B.semi, B.d3, B.d3>>)
SgrNull == Sgr(<<B.d0, B.semi, B.d3, B.d5>>)
SgrNumber == Sgr(<<B.d0, B.semi, B.d3, B.d6>>)
SgrReset == Sgr(<<B.d0>>)

\* The common shape of the emitters: `text` wrapped in color mode, then `tail`
\* (the newline or space that the literal holds after the reset sequence).
Wrapped(sgr, text, tail) ==
    IF color = "AnsiCode" THEN sgr \o text \o SgrReset \o tail ELSE text \o tail

\* const SPACES: the reusable buffer of blanks.
SPACES == [i \in 1..SPACES_LEN |-> B.sp]

\* The number of blanks write_indent asks for at level lv.
IndentWidth_One(lv) == lv
IndentWidth(lv) == lv * 2

\* write_indent: full chunks of SPACES, then the remainder.
write_indent(lv) ==
    LET n == IndentWidth(lv)
        full_chunks == n \div SPACES_LEN
        remainder == n % SPACES_LEN
        chunks[k \in 0..full_chunks] ==
            IF k = 0 THEN <<>> ELSE chunks[k - 1] \o SPACES
    IN  chunks[full_chunks] \o SubSeq(SPACES, 1, remainder)

write_ln == <<B.lf>>
write_empty_obj_Spaced == Wrapped(SgrPunct, <<B.lbrace, B.sp, B.rbrace>>, <<>>)
write_empty_obj == Wrapped(SgrPunct, <<B.lbrace, B.rbrace>>, <<>>)
write_begin_obj == Wrapped(SgrPunct, <<B.lbrace>>, <<B.lf>>)
write_end_obj == Wrapped(SgrPunct, <<B.rbrace>>, <<>>)
write_value_sep_NoComma == Wrapped(SgrPunct, <<>>, <<B.lf>>)
write_value_sep == Wrapped(SgrPunct, <<B.comma>>, <<B.lf>>)
write_name_sep_Tight ==
    IF color = "AnsiCode" THEN Wrapped(SgrPunct, <<B.colon>>, <<>>) ELSE <<B.colon, B.sp>>

write_name_sep == Wrapped(SgrPunct, <<B.colon>>, <<B.sp>>)
write_empty_arr == Wrapped(SgrPunct, <<B.lbracket, B.rbracket>>, <<>>)
write_begin_arr == Wrapped(SgrPunct, <<B.lbracket>>, <<B.lf>>)
write_end_arr == Wrapped(SgrPunct, <<B.rbracket>>, <<>>)
write_key(str) == Wrapped(SgrKey, str, <<>>)
write_value(str) == Wrapped(SgrString, str, <<>>)
write_true == Wrapped(SgrBool, <<B.t, B.r, B.u, B.e>>, <<>>)
write_false == Wrapped(SgrBool, <<B.f, B.a, B.l, B.s, B.e>>, <<>>)
write_null == Wrapped(SgrNull, <<B.n, B.u, B.l, B.l>>, <<>>)
write_number(str) == Wrapped(SgrNumber, str, <<>>)

-----------------------------------------------------------------------------
(* The call stack.  A frame is one active function: where it continues     *)
(* (pc) and its locals (`start` of parse_string / parse_number, `first` of *)
(* the member loops, `mode` of parse_string).                              *)

Frame(fn, pc, start, first, mode) ==
    [fn |-> fn, pc |-> pc, start |-> start, first |-> first, mode |-> mode]

Call(fn) == Frame(fn, "entry", 0, TRUE, "Value")

Top == Head(stack)
At(fn, pc) == result = Running /\ stack # <<>> /\ Top.fn = fn /\ Top.pc = pc

\* The innermost call returns Ok(()): its caller continues, or the driver
\* receives Ok when it was the outermost call.
Return ==
    /\ stack' = Tail(stack)
    /\ result' = IF Tail(stack) = <<>> THEN Ok ELSE result

\* The innermost call returns Err(err): every caller holds it under `?`, so the
\* error is handed up unchanged to the driver and no caller runs another statement.
Fail(err) ==
    /\ stack' = <<>>
    /\ result' = err

\* The innermost call moves on to pc (with its locals as in frame f).
Goto(f) == stack' = <<f>> \o Tail(stack) /\ result' = result

\* The innermost call moves on to f and calls callee.
CallFrom(f, callee) ==
    stack' = <<callee, f>> \o Tail(stack) /\ result' = result

driver == <<call, origin, prev>>

-----------------------------------------------------------------------------
(* Formatter::format                                                       *)

\* format, up to the call of parse_value: skip_start_bom (with its debug
\* assertion, which a build compiles in or leaves out), skip_whitespace, then
\* parse_value(out)?.
FormatBegin ==
    /\ At("format", "entry")
    /\ \E asserts \in BOOLEAN :
       LET bom == skip_start_bom
           asserted == asserts /\ pos # 0
       IN
       IF asserted \/ bom.oob
       THEN /\ Fail(Panic)
            /\ oob' = (oob \/ (~asserted /\ bom.oob))
            /\ UNCHANGED pos
       ELSE /\ pos' = skip_whitespace(bom.pos)
            /\ CallFrom([Top EXCEPT !.pc = "trail"], Call("parse_value"))
            /\ UNCHANGED oob
    /\ UNCHANGED <<input, color, level, out, driver>>

\* format, after parse_value returned Ok: skip_whitespace, then the check
\* that the payload is consumed.
Consumed_Unchecked(p) == Ok

\* Have we completely consumed our payload?
Consumed(p) == IF peek_byte(p) # None THEN InvalidByte(peek_byte(p), p) ELSE Ok

FormatEnd ==
    /\ At("format", "trail")
    /\ LET p == skip_whitespace(pos) IN
       /\ pos' = p
       /\ stack' = <<>>
       /\ result' = Consumed(p)
    /\ UNCHANGED <<input, color, level, out, oob, driver>>

\* parse_value: the dispatch on the next byte.  Each arm returns what the
\* parser it calls returns, so that parser takes parse_value's place.
ValueTarget(byte) ==
    IF byte = B.quote THEN "parse_string"
    ELSE IF byte = B.minus \/ (byte >= B.d0 /\ byte <= B.d9) THEN "parse_number"
    ELSE IF byte = B.lbrace THEN "parse_object"
    ELSE IF byte = B.lbracket THEN "parse_array"
    ELSE IF byte = B.t THEN "parse_true"
    ELSE IF byte = B.f THEN "parse_false"
    ELSE IF byte = B.n THEN "parse_null"
    ELSE "none"

ParseValue_OffsetAfter ==
    /\ At("parse_value", "entry")
    /\ LET byte == peek_byte(pos) IN
       IF byte = None THEN Fail(Eof)
       ELSE IF ValueTarget(byte) = "none" THEN Fail(InvalidByte(byte, pos + 1))
       ELSE Goto(Call(ValueTarget(byte)))
    /\ UNCHANGED <<input, color, pos, level, out, oob, driver>>

ParseValue ==
    /\ At("parse_value", "entry")
    /\ LET byte == peek_byte(pos) IN
       IF byte = None THEN Fail(Eof)
       ELSE IF ValueTarget(byte) = "none" THEN Fail(InvalidByte(byte, pos))
       ELSE Goto(Call(ValueTarget(byte)))
    /\ UNCHANGED <<input, color, pos, level, out, oob, driver>>

-----------------------------------------------------------------------------
(* parse_object and parse_array                                            *)

\* The opening of a container: expect_byte(open)?, skip_whitespace, the compact
\* form of an empty container, else the begin token and inc_level()?.
ContainerOpen(fn, open, close, w_empty, w_begin) ==
    /\ At(fn, "entry")
    /\ LET x == expect_byte(pos, open)
           p == skip_whitespace(x.pos)
       IN  IF x.err # Ok
           THEN /\ pos' = x.pos
                /\ Fail(x.err)
                /\ UNCHANGED <<level, out>>
           ELSE IF peek_byte(p) = close
           THEN /\ pos' = p + 1
                /\ out' = out \o w_empty
                /\ Return
                /\ UNCHANGED level
           ELSE /\ pos' = p
                /\ out' = out \o w_begin
                /\ IF AtMaxLevel(level)
                   THEN Fail(MaxIndentLevel(level, p)) /\ UNCHANGED level
                   ELSE /\ level' = level + 1
                        /\ Goto([Top EXCEPT !.pc = "loop", !.first = TRUE])
    /\ UNCHANGED <<input, color, oob, driver>>

\* The member loop finds the closer: next_byte, dec_level, newline, indentation
\* at the decremented level, the end token.
ContainerClose(fn, close, w_end) ==
    /\ At(fn, "loop")
    /\ LET p == skip_whitespace(pos) IN
       /\ peek_byte(p) = close
       /\ pos' = p + 1
       /\ IF level = 0
          THEN Fail(Panic) /\ UNCHANGED <<level, out>>
          ELSE /\ level' = dec_level(level)
               /\ out' = out \o write_ln \o write_indent(dec_level(level)) \o w_end
               /\ Return
    /\ UNCHANGED <<input, color, oob, driver>>

MemberPrefix_CommaOptional ==
    LET p == skip_whitespace(pos) IN
    IF Top.first
    THEN [pos |-> p, text |-> write_indent(level), err |-> Ok]
    ELSE LET x == expect_byte(p, B.comma) IN
         IF x.err # Ok
         THEN [pos |-> p, text |-> write_value_sep \o write_indent(level), err |-> Ok]
         ELSE [pos |-> skip_whitespace(x.pos),
               text |-> write_value_sep \o write_indent(level), err |-> Ok]

\* The member loop finds no closer: unless this is the first member,
\* expect_byte(b',')?, skip_whitespace and the separator token; then the
\* indentation.  The cursor, the text written and the error, if any.
MemberPrefix ==
    LET p == skip_whitespace(pos) IN
    IF Top.first
    THEN [pos |-> p, text |-> write_indent(level), err |-> Ok]
    ELSE LET x == expect_byte(p, B.comma) IN
         IF x.err # Ok
         THEN [pos |-> x.pos, text |-> <<>>, err |-> x.err]
         ELSE [pos |-> skip_whitespace(x.pos),
               text |-> write_value_sep \o write_indent(level), err |-> Ok]

ParseObjectOpen ==
    ContainerOpen("parse_object", B.lbrace, B.rbrace, write_empty_obj, write_begin_obj)

ParseObjectClose == ContainerClose("parse_object", B.rbrace, write_end_obj)

\* An object member, up to its key: parse_string(out, StringMode::Key)?.
ParseObjectMember ==
    /\ At("parse_object", "loop")
    /\ peek_byte(skip_whitespace(pos)) # B.rbrace
    /\ LET m == MemberPrefix IN
       /\ pos' = m.pos
       /\ out' = out \o m.text
       /\ IF m.err # Ok
          THEN Fail(m.err)
          ELSE CallFrom([Top EXCEPT !.pc = "colon", !.first = FALSE],
                        [Call("parse_string") EXCEPT !.mode = "Key"])
    /\ UNCHANGED <<input, color, level, oob, driver>>

\* An object member, after its key: skip_whitespace, expect_byte(b':')?, the
\* name separator, skip_whitespace, parse_value(out)?.
ParseObjectColon ==
    /\ At("parse_object", "colon")
    /\ LET x == expect_byte(skip_whitespace(pos), B.colon) IN
       IF x.err # Ok
       THEN /\ pos' = x.pos
            /\ Fail(x.err)
            /\ UNCHANGED out
       ELSE /\ pos' = skip_whitespace(x.pos)
            /\ out' = out \o write_name_sep
            /\ CallFrom([Top EXCEPT !.pc = "loop"], Call("parse_value"))
    /\ UNCHANGED <<input, color, level, oob, driver>>

ParseArrayOpen ==
    ContainerOpen("parse_array", B.lbracket, B.rbracket, write_empty_arr, write_begin_arr)

ParseArrayClose == ContainerClose("parse_array", B.rbracket, write_end_arr)

\* An array member: the prefix, then parse_value(out)?.
ParseArrayMember ==
    /\ At("parse_array", "loop")
    /\ peek_byte(skip_whitespace(pos)) # B.rbracket
    /\ LET m == MemberPrefix IN
       /\ pos' = m.pos
       /\ out' = out \o m.text
       /\ IF m.err # Ok
          THEN Fail(m.err)
          ELSE CallFrom([Top EXCEPT !.first = FALSE], Call("parse_value"))
    /\ UNCHANGED <<input, color, level, oob, driver>>

-----------------------------------------------------------------------------
(* parse_string                                                            *)

\* u8::is_ascii_hexdigit, as `(hex as char).is_ascii_hexdigit()` uses it.
is_ascii_hexdigit(byte) ==
    \/ byte >= B.d0 /\ byte <= B.d9
    \/ byte >= B.upA /\ byte <= B.upF
    \/ byte >= B.a /\ byte <= B.f

\* The escapes of one byte: b'"' | b'\\' | b'/' | b'b' | b'f' | b'n' | b'r' | b't'.
IsSimpleEscape_WithX(byte) ==
    byte \in {B.quote, B.bslash, B.slash, B.b, B.f, B.n, B.r, B.t, B.x}

IsSimpleEscape(byte) ==
    byte \in {B.quote, B.bslash, B.slash, B.b, B.f, B.n, B.r, B.t}

\* The `for _ in 0..4` loop after `\u`, with k digits still to read at cursor p.
RECURSIVE hex_digits(_, _)
hex_digits(p, k) ==
    IF k = 0 THEN [pos |-> p, err |-> Ok]
    ELSE LET hex == peek_byte(p) IN
         IF hex = None THEN [pos |-> p, err |-> Eof]
         ELSE IF ~is_ascii_hexdigit(hex)
         THEN [pos |-> p + 1, err |-> InvalidByte(hex, (p + 1) - 1)]
         ELSE hex_digits(p + 1, k - 1)

\* The offset InvalidEscape carries: self.pos, read after next_byte has
\* consumed the escaped byte that stood at offset q.
EscapeErrorPos(q) == q + 1

escape_Stuck(p) ==
    LET byte == peek_byte(p + 1) IN
    IF byte = None THEN [pos |-> p + 1, err |-> Eof]
    ELSE IF IsSimpleEscape(byte) THEN [pos |-> p, err |-> Ok]
    ELSE IF byte = B.u THEN hex_digits(p + 2, 4)
    ELSE [pos |-> p + 2, err |-> InvalidEscape(byte, EscapeErrorPos(p + 1))]

\* The arm b'\\' of the scan loop, with the backslash at cursor p.
escape(p) ==
    LET byte == peek_byte(p + 1) IN
    IF byte = None THEN [pos |-> p + 1, err |-> Eof]
    ELSE IF IsSimpleEscape(byte) THEN [pos |-> p + 2, err |-> Ok]
    ELSE IF byte = B.u THEN hex_digits(p + 2, 4)
    ELSE [pos |-> p + 2, err |-> InvalidEscape(byte, EscapeErrorPos(p + 1))]

\* The arm 0x00..=0x1F of the scan loop.
IsControl(byte) == byte >= 0 /\ byte <= 31

\* let start = self.pos; self.expect_byte(b'"')?;
ParseStringOpen ==
    /\ At("parse_string", "entry")
    /\ LET x == expect_byte(pos, B.quote) IN
       /\ pos' = x.pos
       /\ IF x.err # Ok THEN Fail(x.err)
          ELSE Goto([Top EXCEPT !.pc = "scan", !.start = pos])
    /\ UNCHANGED <<input, color, level, out, oob, driver>>

\* The arm b'"': the closing quote, the span and its emission.
ParseStringClose ==
    /\ At("parse_string", "scan")
    /\ peek_byte(pos) = B.quote
    /\ pos' = pos + 1
    /\ IF ~SpanOk(Top.start, pos + 1)
       THEN Fail(Panic) /\ UNCHANGED out
       ELSE /\ out' = out \o (IF Top.mode = "Key"
                              THEN write_key(slice_str_unchecked(Top.start, pos + 1))
                              ELSE write_value(slice_str_unchecked(Top.start, pos + 1)))
            /\ Return
    /\ UNCHANGED <<input, color, level, oob, driver>>

\* The arm b'\\': one escape.
ParseStringEscape ==
    /\ At("parse_string", "scan")
    /\ peek_byte(pos) = B.bslash
    /\ LET x == escape(pos) IN
       /\ pos' = x.pos
       /\ IF x.err # Ok THEN Fail(x.err) ELSE Goto(Top)
    /\ UNCHANGED <<input, color, level, out, oob, driver>>

\* The arm 0x00..=0x1F: a raw control byte.
ParseStringControl ==
    /\ At("parse_string", "scan")
    /\ IsControl(peek_byte(pos))
    /\ Fail(InvalidByte(peek_byte(pos), pos))
    /\ UNCHANGED <<input, color, pos, level, out, oob, driver>>

\* The arm _: self.next_utf8_char()?.
ParseStringChar ==
    /\ At("parse_string", "scan")
    /\ peek_byte(pos) # None
    /\ peek_byte(pos) \notin {B.quote, B.bslash}
    /\ ~IsControl(peek_byte(pos))
    /\ CallFrom(Top, Call("next_utf8_char"))
    /\ UNCHANGED <<input, color, pos, level, out, oob, driver>>

\* The `while let Some(b)` loop ends at the end of the input: Err(Eof).
ParseStringEof ==
    /\ At("parse_string", "scan")
    /\ peek_byte(pos) = None
    /\ Fail(Eof)
    /\ UNCHANGED <<input, color, pos, level, out, oob, driver>>

-----------------------------------------------------------------------------
(* next_utf8_char                                                          *)

\* cont: (b & 0xC0) == 0x80.
cont(byte) == (byte \div 64) * 64 = 128

InRange(lo, hi, byte) == lo <= byte /\ byte <= hi

Valid2_AnySecond(b1, b2) == InRange(194, 223, b1)

\* The test of a 2-byte sequence.
Valid2(b1, b2) == InRange(194, 223, b1) /\ cont(b2)

\* The 3-byte match without the surrogate arm for 0xED.
Valid3_Surrogates(b1, b2, b3) ==
    IF b1 = 224 THEN InRange(160, 191, b2) /\ cont(b3)
    ELSE IF InRange(225, 239, b1) THEN cont(b2) /\ cont(b3)
    ELSE FALSE

\* The match on b1 of a 3-byte sequence.
Valid3(b1, b2, b3) ==
    IF b1 = 224 THEN InRange(160, 191, b2) /\ cont(b3)
    ELSE IF b1 = 237 THEN InRange(128, 159, b2) /\ cont(b3)
    ELSE IF InRange(225, 236, b1) \/ InRange(238, 239, b1) THEN cont(b2) /\ cont(b3)
    ELSE FALSE

\* The match on b1 of a 4-byte sequence.
Valid4(b1, b2, b3, b4) ==
    IF b1 = 240 THEN InRange(144, 191, b2) /\ cont(b3) /\ cont(b4)
    ELSE IF b1 = 244 THEN InRange(128, 143, b2) /\ cont(b3) /\ cont(b4)
    ELSE IF InRange(241, 243, b1) THEN cont(b2) /\ cont(b3) /\ cont(b4)
    ELSE FALSE

\* The offset an InvalidUtf8 of n bytes carries, for a sequence read from
\* start_pos: start_pos for 2 bytes, self.pos (after the bytes read) for 3 and 4.
Utf8ErrorPos(start_pos, n) == IF n = 2 THEN start_pos ELSE start_pos + n

\* next_utf8_char from cursor p: the cursor it leaves and what it returns.
next_utf8_char(p) ==
    LET b1 == peek_byte(p)
        b2 == peek_byte(p + 1)
        b3 == peek_byte(p + 2)
        b4 == peek_byte(p + 3)
    IN  IF b1 = None THEN [pos |-> p, err |-> Eof]
        ELSE IF b1 < 128 THEN [pos |-> p + 1, err |-> Ok]
        ELSE IF b2 = None THEN [pos |-> p + 1, err |-> Eof]
        ELSE IF b1 < 224
        THEN [pos |-> p + 2,
              err |-> IF Valid2(b1, b2) THEN Ok
                      ELSE InvalidUtf8(<<b1, b2, 0, 0>>, 2, Utf8ErrorPos(p, 2))]
        ELSE IF b3 = None THEN [pos |-> p + 2, err |-> Eof]
        ELSE IF b1 < 240
        THEN [pos |-> p + 3,
              err |-> IF Valid3(b1, b2, b3) THEN Ok
                      ELSE InvalidUtf8(<<b1, b2, b3, 0>>, 3, Utf8ErrorPos(p, 3))]
        ELSE IF b4 = None THEN [pos |-> p + 3, err |-> Eof]
        ELSE [pos |-> p + 4,
              err |-> IF Valid4(b1, b2, b3, b4) THEN Ok
                      ELSE InvalidUtf8(<<b1, b2, b3, b4>>, 4, Utf8ErrorPos(p, 4))]

NextUtf8Char ==
    /\ At("next_utf8_char", "entry")
    /\ LET x == next_utf8_char(pos) IN
       /\ pos' = x.pos
       /\ IF x.err # Ok THEN Fail(x.err) ELSE Return
    /\ UNCHANGED <<input, color, level, out, oob, driver>>

-----------------------------------------------------------------------------
(* parse_true, parse_false, parse_null                                     *)

Literal(fn, lit, text) ==
    /\ At(fn, "entry")
    /\ LET x == expect_bytes(pos, lit) IN
       /\ pos' = x.pos
       /\ IF x.err # Ok
          THEN Fail(x.err) /\ UNCHANGED out
          ELSE out' = out \o text /\ Return
    /\ UNCHANGED <<input, color, level, oob, driver>>

ParseTrue == Literal("parse_true", <<B.t, B.r, B.u, B.e>>, write_true)
ParseFalse == Literal("parse_false", <<B.f, B.a, B.l, B.s, B.e>>, write_false)
ParseNull == Literal("parse_null", <<B.n, B.u, B.l, B.l>>, write_null)

-----------------------------------------------------------------------------
(* parse_number                                                            *)

IsDigit(byte) == byte >= B.d0 /\ byte <= B.d9

\* while let Some(b'0'..=b'9') = self.peek_byte() { self.next_byte(); }
RECURSIVE skip_digits(_)
skip_digits(p) == IF IsDigit(peek_byte(p)) THEN skip_digits(p + 1) ELSE p

\* The error arms `Some(b) => InvalidByte(b, self.pos)` and `None => Eof`.
NotADigit(p) == IF peek_byte(p) = None THEN Eof ELSE InvalidByte(peek_byte(p), p)

\* `0 or more digits` in place of `1 or more digits`.
digits1_OrNone(p) == [pos |-> skip_digits(p), err |-> Ok]

\* `1 or more digits`, as parse_fraction and parse_exponent scan them.
digits1(p) ==
    IF IsDigit(peek_byte(p)) THEN [pos |-> skip_digits(p + 1), err |-> Ok]
    ELSE [pos |-> p, err |-> NotADigit(p)]

\* parse_integer taking every digit after a leading zero.
parse_integer_Greedy(p) ==
    IF IsDigit(peek_byte(p)) THEN [pos |-> skip_digits(p + 1), err |-> Ok]
    ELSE [pos |-> p, err |-> NotADigit(p)]

parse_integer(p) ==
    IF peek_byte(p) = B.d0 THEN [pos |-> p + 1, err |-> Ok]
    ELSE IF InRange(B.d1, B.d9, peek_byte(p)) THEN [pos |-> skip_digits(p + 1), err |-> Ok]
    ELSE [pos |-> p, err |-> NotADigit(p)]

parse_fraction(p) ==
    IF peek_byte(p) = B.dot THEN digits1(p + 1) ELSE [pos |-> p, err |-> Ok]

parse_exponent(p) ==
    IF peek_byte(p) \in {B.e, B.upE}
    THEN digits1(IF peek_byte(p + 1) \in {B.plus, B.minus} THEN p + 2 ELSE p + 1)
    ELSE [pos |-> p, err |-> Ok]

\* let start = self.pos; then the optional minus.
ParseNumberBegin ==
    /\ At("parse_number", "entry")
    /\ pos' = IF peek_byte(pos) = B.minus THEN pos + 1 ELSE pos
    /\ Goto([Top EXCEPT !.pc = "integer", !.start = pos])
    /\ UNCHANGED <<input, color, level, out, oob, driver>>

\* One of self.parse_integer()?, self.parse_fraction()?, self.parse_exponent()?.
NumberPart(pc, x, next) ==
    /\ At("parse_number", pc)
    /\ pos' = x.pos
    /\ IF x.err # Ok THEN Fail(x.err) ELSE Goto([Top EXCEPT !.pc = next])
    /\ UNCHANGED <<input, color, level, out, oob, driver>>

ParseInteger == NumberPart("integer", parse_integer(pos), "fraction")
ParseFraction == NumberPart("fraction", parse_fraction(pos), "exponent")
ParseExponent == NumberPart("exponent", parse_exponent(pos), "write")

\* Finally, write numbers.
ParseNumberWrite ==
    /\ At("parse_number", "write")
    /\ IF ~SpanOk(Top.start, pos)
       THEN Fail(Panic) /\ UNCHANGED out
       ELSE out' = out \o write_number(slice_str_unchecked(Top.start, pos)) /\ Return
    /\ UNCHANGED <<input, color, pos, level, oob, driver>>

-----------------------------------------------------------------------------
(* The inputs.  Each family is every sequence, up to a bound, over a small *)
(* set of bytes or lexemes chosen to reach one part of the scanner.        *)

\* Structural tokens in a row.
MaxTokens == 5
\* Lexemes in a row inside a string.
MaxStrLen == 3
\* Bytes or lexemes in a row in the number, literal and byte-order-mark families.
MaxLexLen == 4
\* Bytes that follow the lead byte in the UTF-8 families.
MaxUtf8Tail == 3
\* Bytes handed to parse_number when it is called on its own.
MaxNumLen == 5
\* The deepest nesting of the deep documents.
MaxDepth == 101
\* The deepest nesting of the documents whose output is formatted again.
MaxAgainDepth == 34

SeqsUpTo(S, n) == UNION {[1..k -> S] : k \in 0..n}

RECURSIVE Flatten(_)
Flatten(ts) == IF ts = <<>> THEN <<>> ELSE Head(ts) \o Flatten(Tail(ts))

Str_a == <<B.quote, B.a, B.quote>>
BOM == <<239, 187, 191>>

StructTokens ==
    { <<B.lbracket>>, <<B.rbracket>>, <<B.lbrace>>, <<B.rbrace>>, <<B.comma>>,
      <<B.colon>>, <<B.sp>>, Str_a }

\* Numbers: at top level, as an array element, as an object member value.
NumberBytes == {B.minus, B.d0, B.d1, B.dot, B.e, B.upE, B.plus}

ObjOpener == <<B.lbrace>> \o Str_a \o <<B.colon>>

NumberContexts ==
    { <<<<>>, <<>>>>, <<<<B.lbracket>>, <<B.rbracket>>>>, <<ObjOpener, <<B.rbrace>>>> }

\* Strings: after the opening quote, quotes, escapes, hex digits, a control
\* byte, a blank, a 2-byte character (U+00E9) and its lead byte alone; as a
\* value and as the key of an object.
StringTokens ==
    { <<B.quote>>, <<B.bslash>>, <<B.n>>, <<B.u>>, <<B.d0>>, <<B.x>>, <<B.lf>>,
      <<B.sp>>, <<195, 169>>, <<195>>, <<B.bslash, B.u, B.d0, B.upF>> }

StringContexts ==
    { <<<<>>, <<>>>>, <<<<B.lbrace>>, <<B.colon, B.d1, B.rbrace>>>> }

\* Literals, whole and cut short, with a byte or a blank after them.
LiteralTokens ==
    { <<B.t, B.r, B.u>>, <<B.e>>, <<B.f, B.a, B.l, B.s>>, <<B.n, B.u, B.l>>,
      <<B.l>>, <<B.x>>, <<B.sp>>, <<B.tab>> }

\* The byte-order mark, whole, cut short and repeated, before a value.
BomTokens == { BOM, <<239>>, <<187>>, <<191>>, <<B.d1>>, <<B.lf>>, <<B.cr>> }

\* UTF-8: bytes at the edges of every range next_utf8_char tests.
Utf8Leads ==
    { 0, B.a, 127, 128, 191, 192, 193, 194, 223, 224, 225, 236, 237, 238, 239,
      240, 241, 243, 244, 245, 255 }

Utf8Conts == { B.a, 127, 128, 143, 144, 159, 160, 191, 192 }

Utf8ContsInString == { B.quote, 128, 159, 160, 191 }

\* Deep documents: d openers, a payload, and the closers (or none of them).
Repeat(seq, n) == [i \in 1..(n * Len(seq)) |-> seq[((i - 1) % Len(seq)) + 1]]

DeepPayloads ==
    { <<>>, <<B.d1>>, <<B.lbracket, B.rbracket>>, <<B.lbrace, B.sp, B.rbrace>>,
      <<B.lbracket, B.d1, B.rbracket>> }

DeepInputs ==
    UNION { { Repeat(<<B.lbracket>>, d) \o payload \o Repeat(<<B.rbracket>>, d),
              Repeat(<<B.lbracket>>, d) \o payload,
              Repeat(ObjOpener, d) \o payload \o Repeat(<<B.rbrace>>, d),
              Repeat(<<B.lbracket>> \o ObjOpener, d \div 2) \o payload
                  \o Repeat(<<B.rbrace, B.rbracket>>, d \div 2) }
            : d \in (MaxDepth - 2)..MaxDepth, payload \in DeepPayloads }

\* Documents to format twice: nested deep enough for an indentation longer
\* than SPACES, with several members at the innermost level.
AgainPayloads ==
    { <<B.d1>>, <<B.d1, B.comma, B.sp, B.lbracket, B.rbracket, B.comma>> \o Str_a,
      <<B.lbrace>> \o Str_a \o <<B.colon, B.lbrace, B.rbrace, B.comma, B.lf>>
          \o Str_a \o <<B.colon, B.n, B.u, B.l, B.l, B.rbrace>> }

AgainInputs ==
    UNION { { Repeat(<<B.lbracket>>, d) \o payload \o Repeat(<<B.rbracket>>, d),
              Repeat(ObjOpener, d) \o payload \o Repeat(<<B.rbrace>>, d) }
            : d \in 1..MaxAgainDepth, payload \in AgainPayloads }

\* parse_number called on its own, as the unit tests call it.
NumberAloneBytes == NumberBytes \cup {B.d9, B.x}

-----------------------------------------------------------------------------
(* The driver: Formatter::new, then one call.                              *)

NoRun == [result |-> Running, out |-> <<>>]

\* Formatter::new(input, color), and the driver about to call `entry`.
New(bytes, clr, entry) ==
    /\ input = bytes
    /\ color = clr
    /\ pos = 0
    /\ level = 0
    /\ out = <<>>
    /\ stack = <<Call(entry)>>
    /\ result = Running
    /\ oob = FALSE
    /\ call = entry
    /\ origin = bytes
    /\ prev = NoRun

\* format on an input of one of the shallow families.
InitShallow ==
    \/ \E ts \in SeqsUpTo(StructTokens, MaxTokens) :
           New(Flatten(ts), "NoColor", "format")
    \/ \E body \in SeqsUpTo(NumberBytes, MaxLexLen), ctx \in NumberContexts :
           New(ctx[1] \o body \o ctx[2], "NoColor", "format")
    \/ \E ts \in SeqsUpTo(StringTokens, MaxStrLen), ctx \in StringContexts :
           New(ctx[1] \o <<B.quote>> \o Flatten(ts) \o ctx[2], "NoColor", "format")
    \/ \E ts \in SeqsUpTo(LiteralTokens, MaxLexLen) :
           New(Flatten(ts), "NoColor", "format")
    \/ \E ts \in SeqsUpTo(BomTokens, MaxLexLen) :
           New(Flatten(ts), "NoColor", "format")
    \/ \E lead \in Utf8Leads, tail \in SeqsUpTo(Utf8ContsInString, MaxUtf8Tail) :
           New(<<B.quote, lead>> \o tail \o <<B.quote>>, "NoColor", "format")

Init ==
    \/ InitShallow
    \/ \E bytes \in DeepInputs : New(bytes, "NoColor", "format")

Next ==
    \/ FormatBegin
    \/ FormatEnd
    \/ ParseValue
    \/ ParseObjectOpen
    \/ ParseObjectClose
    \/ ParseObjectMember
    \/ ParseObjectColon
    \/ ParseArrayOpen
    \/ ParseArrayClose
    \/ ParseArrayMember
    \/ ParseStringOpen
    \/ ParseStringClose
    \/ ParseStringEscape
    \/ ParseStringControl
    \/ ParseStringChar
    \/ ParseStringEof
    \/ NextUtf8Char
    \/ ParseTrue
    \/ ParseFalse
    \/ ParseNull
    \/ ParseNumberBegin
    \/ ParseInteger
    \/ ParseFraction
    \/ ParseExponent
    \/ ParseNumberWrite

Spec == Init /\ [][Next]_vars

\* parse_number on its own.
InitNumber ==
    \E bytes \in SeqsUpTo(NumberAloneBytes, MaxNumLen) :
        New(bytes, "NoColor", "parse_number")

NextNumber ==
    \/ ParseNumberBegin
    \/ ParseInteger
    \/ ParseFraction
    \/ ParseExponent
    \/ ParseNumberWrite

SpecNumber == InitNumber /\ [][NextNumber]_vars

\* next_utf8_char on its own.
InitUtf8 ==
    \E lead \in Utf8Leads \cup Utf8Conts, tail \in SeqsUpTo(Utf8Conts, MaxUtf8Tail) :
        New(<<lead>> \o tail, "NoColor", "next_utf8_char")

NextUtf8 == NextUtf8Char

SpecUtf8 == InitUtf8 /\ [][NextUtf8]_vars

\* format, and after an Ok a second Formatter::new over the bytes the first
\* one wrote, with the same color, and format again.
Refeed ==
    /\ call = "format"
    /\ result = Ok
    /\ prev = NoRun
    /\ prev' = [result |-> result, out |-> out]
    /\ input' = out
    /\ pos' = 0
    /\ level' = 0
    /\ out' = <<>>
    /\ stack' = <<Call("format")>>
    /\ result' = Running
    /\ oob' = FALSE
    /\ UNCHANGED <<color, call, origin>>

\* format in NoColor mode, and after it returned, Ok or not, a second
\* Formatter::new over the same input with Color::AnsiCode, and format again.
Recolor ==
    /\ call = "format"
    /\ result # Running
    /\ prev = NoRun
    /\ color = "NoColor"
    /\ prev' = [result |-> result, out |-> out]
    /\ color' = "AnsiCode"
    /\ pos' = 0
    /\ level' = 0
    /\ out' = <<>>
    /\ stack' = <<Call("format")>>
    /\ result' = Running
    /\ oob' = FALSE
    /\ UNCHANGED <<input, call, origin>>

InitAgain ==
    \/ InitShallow
    \/ \E bytes \in AgainInputs : New(bytes, "NoColor", "format")

NextAgain == Next \/ Refeed

SpecAgain == InitAgain /\ [][NextAgain]_vars

NextColor == Next \/ Recolor

\* format, and after it returned, Ok or not, format again on the same
\* Formatter with a fresh sink: the cursor and the level are what the first
\* call left.
Recall ==
    /\ call = "format"
    /\ result # Running
    /\ prev = NoRun
    /\ prev' = [result |-> result, out |-> out]
    /\ out' = <<>>
    /\ stack' = <<Call("format")>>
    /\ result' = Running
    /\ UNCHANGED <<input, color, pos, level, oob, call, origin>>

NextTwice == Next \/ Recall

SpecTwice == InitAgain /\ [][NextTwice]_vars

SpecColor == InitAgain /\ [][NextColor]_vars

-----------------------------------------------------------------------------
(* Reference definitions the claims are stated against.                    *)

\* RFC 3629: the scalar value a sequence of 1 to 4 bytes encodes, or None when
\* the bytes do not have the shape of an encoding of that length.
Utf8Value(seq) ==
    LET n == Len(seq)
        tail(i) == seq[i] - 128
        IsTail(i) == seq[i] >= 128 /\ seq[i] <= 191
    IN  IF n = 1 THEN (IF seq[1] <= 127 THEN seq[1] ELSE None)
        ELSE IF n = 2
        THEN (IF seq[1] >= 192 /\ seq[1] <= 223 /\ IsTail(2)
              THEN (seq[1] - 192) * 64 + tail(2) ELSE None)
        ELSE IF n = 3
        THEN (IF seq[1] >= 224 /\ seq[1] <= 239 /\ IsTail(2) /\ IsTail(3)
              THEN (seq[1] - 224) * 4096 + tail(2) * 64 + tail(3) ELSE None)
        ELSE IF n = 4
        THEN (IF seq[1] >= 240 /\ seq[1] <= 247 /\ IsTail(2) /\ IsTail(3) /\ IsTail(4)
              THEN (seq[1] - 240) * 262144 + tail(2) * 4096 + tail(3) * 64 + tail(4)
              ELSE None)
        ELSE None

\* The shortest encoding of a scalar value has this many bytes.
Utf8Length(cp) == IF cp <= 127 THEN 1 ELSE IF cp <= 2047 THEN 2 ELSE IF cp <= 65535 THEN 3 ELSE 4

\* seq is the UTF-8 encoding of exactly one Unicode scalar value: not overlong,
\* no surrogate, nothing above U+10FFFF.
IsScalarEncoding(seq) ==
    LET cp == Utf8Value(seq) IN
    /\ cp # None
    /\ Utf8Length(cp) = Len(seq)
    /\ ~(cp >= 55296 /\ cp <= 57343)
    /\ cp <= 1114111

\* The byte at offset p of the input (the caller keeps p in range).
ByteAt(p) == input[p + 1]

\* Every byte at the offsets lo..hi-1 is a decimal digit.
DigitsIn(lo, hi) == \A q \in lo..(hi - 1) : ByteAt(q) \in 48..57

\* The first offset from p on that holds no decimal digit (the end of the input
\* when digits run to it).
DigitRunEnd(p) ==
    CHOOSE q \in p..Len(input) :
        /\ DigitsIn(p, q)
        /\ q < Len(input) => ByteAt(q) \notin 48..57

\* The bytes at offsets lo..hi-1 are `0 | [1-9][0-9]*`.
IsInt(lo, hi) == lo < hi /\ DigitsIn(lo, hi) /\ (ByteAt(lo) = 48 => hi = lo + 1)

\* The bytes at offsets lo..hi-1 are `(. [0-9]+)?`.
IsOptFrac(lo, hi) ==
    lo = hi \/ (lo + 1 < hi /\ ByteAt(lo) = 46 /\ DigitsIn(lo + 1, hi))

\* The bytes at offsets lo..hi-1 are `((e|E) [+-]? [0-9]+)?`.
IsOptExp(lo, hi) ==
    \/ lo = hi
    \/ /\ lo + 1 < hi
       /\ ByteAt(lo) \in {101, 69}
       /\ \/ DigitsIn(lo + 1, hi)
          \/ lo + 2 < hi /\ ByteAt(lo + 1) \in {43, 45} /\ DigitsIn(lo + 2, hi)

\* The bytes at offsets lo..hi-1 are a number of RFC 7159, section 6.
IsNumber(lo, hi) ==
    /\ lo < hi
    /\ LET int == IF ByteAt(lo) = 45 THEN lo + 1 ELSE lo IN
       \E frac \in int..hi, exp \in int..hi :
           frac <= exp /\ IsInt(int, frac) /\ IsOptFrac(frac, exp) /\ IsOptExp(exp, hi)

\* The first offset from p on that holds none of the bytes a number is made of.
NumberBytesEnd(p) ==
    CHOOSE q \in p..Len(input) :
        /\ \A k \in p..(q - 1) : ByteAt(k) \in (48..57) \cup {43, 45, 46, 69, 101}
        /\ q < Len(input) => ByteAt(q) \notin (48..57) \cup {43, 45, 46, 69, 101}

\* The ends of the prefixes of the input, from offset lo, that are numbers.
NumberEnds(lo) == {hi \in lo..NumberBytesEnd(lo) : IsNumber(lo, hi)}

Max(S) == CHOOSE x \in S : \A y \in S : y <= x

\* What a scanner reports when it wants a digit at offset p and finds none.
DigitWanted(p) == IF p >= Len(input) THEN Eof ELSE InvalidByte(ByteAt(p), p)

Finished(entry) == call = entry /\ result # Running

-----------------------------------------------------------------------------
(* Claims about next_utf8_char and parse_number called on their own.       *)

\* C4: for every sequence s of 1 to 4 bytes at the cursor, whatever follows it,
\* next_utf8_char returns Ok with the cursor advanced by len(s) if and only if
\* s is the UTF-8 encoding of exactly one Unicode scalar value.
C4_Utf8MatchesReference ==
    Finished("next_utf8_char") =>
        \A n \in 1..4 :
            n <= Len(input) =>
                ((result = Ok /\ pos = n) <=> IsScalarEncoding(SubSeq(input, 1, n)))

\* A 3-byte sequence is accepted with a byte following it.
C4_Witness ==
    /\ Finished("next_utf8_char")
    /\ result = Ok
    /\ pos = 3
    /\ Len(input) = 4

\* C5: whenever parse_number returns Ok, the text in the sink is the longest
\* prefix of the input that is a number, and the cursor is on the first byte
\* after that prefix.
C5_NumberIsLongestPrefix ==
    (Finished("parse_number") /\ result = Ok) =>
        /\ NumberEnds(0) # {}
        /\ pos = Max(NumberEnds(0))
        /\ out = SubSeq(input, 1, Max(NumberEnds(0)))

\* `0000` emits `0` and leaves the cursor at offset 1.
C5_Witness ==
    /\ Finished("parse_number")
    /\ input = <<B.d0, B.d0, B.d0, B.d0>>
    /\ out = <<B.d0>>
    /\ pos = 1

\* The offset after the optional minus, after the integer part, after the
\* fraction, and of the first exponent digit.
NumInt == IF Len(input) > 0 /\ ByteAt(0) = 45 THEN 1 ELSE 0
NumIntEnd == IF ByteAt(NumInt) = 48 THEN NumInt + 1 ELSE DigitRunEnd(NumInt)
NumHasDot == NumIntEnd < Len(input) /\ ByteAt(NumIntEnd) = 46
NumFracEnd == IF NumHasDot THEN DigitRunEnd(NumIntEnd + 1) ELSE NumIntEnd
NumHasExp == NumFracEnd < Len(input) /\ ByteAt(NumFracEnd) \in {101, 69}
NumExpDigits ==
    IF NumFracEnd + 1 < Len(input) /\ ByteAt(NumFracEnd + 1) \in {43, 45}
    THEN NumFracEnd + 2 ELSE NumFracEnd + 1

NoDigitAt(p) == p >= Len(input) \/ ByteAt(p) \notin 48..57

\* (a) no digit after the optional minus; (b) a `.` after the integer part with
\* no digit after it; (c) an `e`/`E` and optional sign with no digit after it.
NumNoInt == NoDigitAt(NumInt)
NumNoFrac == ~NumNoInt /\ NumHasDot /\ NoDigitAt(NumIntEnd + 1)
NumNoExp == ~NumNoInt /\ ~NumNoFrac /\ NumHasExp /\ NoDigitAt(NumExpDigits)

\* C6: in each of the cases (a), (b), (c) parse_number returns an error, having
\* written nothing: InvalidByte with the byte found in place of the digit and
\* that byte's offset, or Eof when the input ends there.
C6_NumberErrors ==
    Finished("parse_number") =>
        /\ NumNoInt => (result = DigitWanted(NumInt) /\ out = <<>>)
        /\ NumNoFrac => (result = DigitWanted(NumIntEnd + 1) /\ out = <<>>)
        /\ NumNoExp => (result = DigitWanted(NumExpDigits) /\ out = <<>>)

\* `1.` fails at the end of the input.
C6_Witness ==
    /\ Finished("parse_number")
    /\ input = <<B.d1, B.dot>>
    /\ result = Eof
    /\ out = <<>>

-----------------------------------------------------------------------------
(* The JSON grammar of RFC 7159, as a reference to state the claims about  *)
(* format against.  A lexical recogniser returns the offset after what it  *)
(* recognised, or None.  The nesting is recognised by a pushdown automaton *)
(* over the tokens, whose state is the offset p of the next token, the     *)
(* closers `open` of the containers that hold members (innermost first)    *)
(* and what it expects there.  `m.cap` bounds the containers open at once; *)
(* `m.all` tells whether empty containers count as open.                   *)

\* ws = *( %x20 / %x09 / %x0A / %x0D ): the first offset from p on that holds
\* none of them.
RefWs(p) ==
    CHOOSE q \in p..Len(input) :
        /\ \A k \in p..(q - 1) : ByteAt(k) \in {32, 9, 10, 13}
        /\ q < Len(input) => ByteAt(q) \notin {32, 9, 10, 13}

Has(p, byte) == p < Len(input) /\ ByteAt(p) = byte

HasBytes(p, lit) ==
    p + Len(lit) <= Len(input) /\ SubSeq(input, p + 1, p + Len(lit)) = lit

\* HEXDIG
RefHex(p) ==
    p < Len(input) /\ (ByteAt(p) \in 48..57 \/ ByteAt(p) \in 65..70 \/ ByteAt(p) \in 97..102)

\* unescaped = %x20-21 / %x23-5B / %x5D-10FFFF, UTF-8 encoded: how many bytes
\* the character at offset p takes, or None.
RefUnescaped(p) ==
    LET fits == {n \in 1..4 :
                    /\ p + n <= Len(input)
                    /\ IsScalarEncoding(SubSeq(input, p + 1, p + n))
                    /\ Utf8Value(SubSeq(input, p + 1, p + n)) >= 32
                    /\ Utf8Value(SubSeq(input, p + 1, p + n)) \notin {34, 92}}
    IN  IF fits = {} THEN None ELSE CHOOSE n \in fits : TRUE

\* *char quotation-mark, from offset p.
RECURSIVE RefChars(_)
RefChars(p) ==
    IF p >= Len(input) THEN None
    ELSE IF ByteAt(p) = 34 THEN p + 1
    ELSE IF ByteAt(p) = 92
    THEN IF p + 1 < Len(input) /\ ByteAt(p + 1) \in {34, 92, 47, 98, 102, 110, 114, 116}
         THEN RefChars(p + 2)
         ELSE IF /\ Has(p + 1, 117)
                 /\ \A k \in 2..5 : RefHex(p + k)
         THEN RefChars(p + 6)
         ELSE None
    ELSE IF RefUnescaped(p) = None THEN None
    ELSE RefChars(p + RefUnescaped(p))

\* string = quotation-mark *char quotation-mark
RefString(p) == IF Has(p, 34) THEN RefChars(p + 1) ELSE None

\* number: the longest one from offset p.
RefNumber(p) == IF NumberEnds(p) = {} THEN None ELSE Max(NumberEnds(p))

\* false / null / true / number / string
RefScalar(p) ==
    CASE HasBytes(p, <<102, 97, 108, 115, 101>>) -> p + 5
      [] HasBytes(p, <<110, 117, 108, 108>>) -> p + 4
      [] HasBytes(p, <<116, 114, 117, 101>>) -> p + 4
      [] Has(p, 34) -> RefString(p)
      [] OTHER -> RefNumber(p)

RefFail == [p |-> 0, open |-> <<>>, ex |-> "fail"]

\* A value ended at offset v: ws, then the end of the text or a separator.
RefAfterValue(open, v) ==
    [p |-> RefWs(v), open |-> open, ex |-> IF open = <<>> THEN "end" ELSE "sep"]

\* begin-array / begin-object was read and q is the offset after its ws: an
\* empty container is a value; any other holds members, which start with `ex`.
RefOpen(st, q, close, ex, m) ==
    IF Has(q, close)
    THEN (IF m.all /\ Len(st.open) + 1 > m.cap THEN RefFail
          ELSE RefAfterValue(st.open, q + 1))
    ELSE IF Len(st.open) + 1 > m.cap THEN RefFail
    ELSE [p |-> q, open |-> <<close>> \o st.open, ex |-> ex]

\* One token.
\*   value  = false / null / true / object / array / number / string
\*   array  = begin-array [ value *( value-separator value ) ] end-array
\*   object = begin-object [ member *( value-separator member ) ] end-object
\*   member = string name-separator value
RefStep(st, m) ==
    CASE st.ex = "value" ->
             (CASE Has(st.p, 91) -> RefOpen(st, RefWs(st.p + 1), 93, "value", m)
                [] Has(st.p, 123) -> RefOpen(st, RefWs(st.p + 1), 125, "name", m)
                [] OTHER -> IF RefScalar(st.p) = None THEN RefFail
                            ELSE RefAfterValue(st.open, RefScalar(st.p)))
      [] st.ex = "name" ->
             LET k == RefString(st.p)
                 c == IF k = None THEN None ELSE RefWs(k)
             IN  IF k # None /\ Has(c, 58)
                 THEN [st EXCEPT !.p = RefWs(c + 1), !.ex = "value"]
                 ELSE RefFail
      [] st.ex = "sep" ->
             (CASE Has(st.p, Head(st.open)) -> RefAfterValue(Tail(st.open), st.p + 1)
                [] Has(st.p, 44) ->
                       [st EXCEPT !.p = RefWs(st.p + 1),
                                  !.ex = IF Head(st.open) = 125 THEN "name" ELSE "value"]
                [] OTHER -> RefFail)
      [] OTHER -> st

\* n tokens from state st (the halves keep the evaluation shallow).
RECURSIVE RefRun(_, _, _)
RefRun(n, st, m) ==
    IF n = 0 THEN st
    ELSE IF n = 1 THEN RefStep(st, m)
    ELSE LET half == RefRun(n \div 2, st, m)
         IN  IF half.ex \in {"end", "fail"} THEN half
             ELSE RefRun(n - (n \div 2), half, m)

\* JSON-text = ws value ws, after an optional byte-order mark.  Every token
\* but the last takes at least one byte.
RefText(m) ==
    LET start == IF HasBytes(0, <<239, 187, 191>>) THEN 3 ELSE 0
        first == [p |-> RefWs(start), open |-> <<>>, ex |-> "value"]
        last == RefRun(Len(input) + 1, first, m)
    IN  last.ex = "end" /\ last.p = Len(input)

\* A JSON text; one with at most cap non-empty containers open at once; one with
\* at most cap containers, empty or not, open at once.
IsJson == RefText([cap |-> Len(input), all |-> FALSE])
IsJsonWithin(cap) == RefText([cap |-> cap, all |-> FALSE])
IsJsonNestedWithin(cap) == RefText([cap |-> cap, all |-> TRUE])

-----------------------------------------------------------------------------
(* C1: formatting is idempotent in Plain mode.                             *)

\* C1: when format returned Ok with output o for an input, format on o (same
\* color mode NoColor) returns Ok as well and writes exactly o again.
C1_Idempotent ==
    (call = "format" /\ prev # NoRun /\ result # Running)
        => (color = "NoColor" /\ result = Ok /\ out = prev.out)

\* A second run has ended on an output that differs from the first input,
\* holds a member separator, a name separator and an indentation line.
C1_Witness ==
    /\ call = "format" /\ prev # NoRun /\ result = Ok
    /\ out # origin
    /\ \E i \in 1..(Len(out) - 3) :
           /\ out[i] = B.comma /\ out[i + 1] = B.lf /\ out[i + 2] = B.sp
    /\ \E i \in 1..(Len(out) - 1) : out[i] = B.colon /\ out[i + 1] = B.sp
    /\ Len(out) > 2 * SPACES_LEN

-----------------------------------------------------------------------------
(* C2: format validates.                                                   *)

\* C2: format returns Ok if and only if the buffer, after an optional leading
\* byte-order mark, is `ws value ws` of the JSON grammar and never has more
\* than 100 non-empty containers open at once.
C2_ValidatesJson ==
    Finished("format") => ((result = Ok) <=> IsJsonWithin(MAX_INDENT_LEVEL))

\* format returned Ok on a document that has exactly 100 non-empty containers
\* open at some point.
C2_Witness ==
    /\ Finished("format")
    /\ result = Ok
    /\ IsJsonWithin(MAX_INDENT_LEVEL)
    /\ ~IsJsonWithin(MAX_INDENT_LEVEL - 1)

-----------------------------------------------------------------------------
(* C3: format changes insignificant whitespace only.                       *)

\* A scan is outside a string ("out"), inside one ("str") or after a
\* backslash inside one ("esc"); this is where it is after `byte`.
StripNext(st, byte) ==
    CASE st = "out" -> IF byte = 34 THEN "str" ELSE "out"
      [] st = "str" -> IF byte = 34 THEN "out" ELSE IF byte = 92 THEN "esc" ELSE "str"
      [] OTHER -> "str"

\* Only a space, LF, CR or TAB outside a string is deleted.
StripKeep(st, byte) == st # "out" \/ byte \notin {32, 9, 10, 13}

\* seq[lo..hi] scanned from state st: the state after it and the bytes kept
\* (the halves keep the evaluation shallow).
RECURSIVE StripSeg(_, _, _, _)
StripSeg(seq, lo, hi, st) ==
    IF lo > hi THEN [st |-> st, text |-> <<>>]
    ELSE IF lo = hi
    THEN [st |-> StripNext(st, seq[lo]),
          text |-> IF StripKeep(st, seq[lo]) THEN <<seq[lo]>> ELSE <<>>]
    ELSE LET left == StripSeg(seq, lo, (lo + hi) \div 2, st) IN
         IF left.st \notin {"out", "str", "esc"} THEN left
         ELSE LET right == StripSeg(seq, ((lo + hi) \div 2) + 1, hi, left.st)
              IN  [st |-> right.st, text |-> left.text \o right.text]

Strip(seq) == StripSeg(seq, 1, Len(seq), "out").text

InputAfterBom ==
    IF HasBytes(0, <<239, 187, 191>>) THEN SubSeq(input, 4, Len(input)) ELSE input

\* C3: when format returns Ok in Plain mode, the output with every space, LF,
\* CR and TAB outside a string literal deleted equals the input with its
\* leading byte-order mark and every such byte deleted.
C3_ContentPreserved ==
    (Finished("format") /\ result = Ok /\ color = "NoColor")
        => Strip(out) = Strip(InputAfterBom)

\* format returned Ok on an object whose key holds a blank, kept in the output,
\* and the output has the whitespace format adds.
C3_Witness ==
    /\ Finished("format") /\ result = Ok /\ color = "NoColor"
    /\ Len(input) >= 4
    /\ input[1] = B.lbrace /\ input[2] = B.quote /\ input[3] = B.sp
    /\ out # input
    /\ \E i \in 1..(Len(out) - 1) : out[i] = B.quote /\ out[i + 1] = B.sp

-----------------------------------------------------------------------------
(* C7: the depth cap.                                                      *)

\* The calls of parse_object and parse_array in progress.
ContainerFrames ==
    Cardinality({i \in 1..Len(stack) : stack[i].fn \in {"parse_object", "parse_array"}})

DeepestOpeners == Repeat(<<B.lbracket>>, MAX_INDENT_LEVEL + 1)

\* C7 as stated: on every well-formed document in which containers, empty or
\* not, are nested 101 levels deep, and on 101 consecutive `[`, format returns
\* MaxIndentLevel.
C7_AnyContainerNested101 ==
    (Finished("format")
        /\ ((IsJson /\ ~IsJsonNestedWithin(MAX_INDENT_LEVEL)) \/ input = DeepestOpeners))
        => result.kind = "MaxIndentLevel"

\* C7: on every well-formed document in which non-empty containers are nested
\* 101 levels deep, and on 101 consecutive `[`, format returns MaxIndentLevel
\* at level 100; and never are more than 101 calls of parse_object and
\* parse_array in progress, of which at most 100 have got past inc_level.
C7_DepthCap ==
    /\ ContainerFrames <= MAX_INDENT_LEVEL + 1
    /\ level <= MAX_INDENT_LEVEL
    /\ (Finished("format")
           /\ ((IsJson /\ ~IsJsonWithin(MAX_INDENT_LEVEL)) \/ input = DeepestOpeners))
           => (result.kind = "MaxIndentLevel" /\ result.a = MAX_INDENT_LEVEL)

\* format ended with MaxIndentLevel on a well-formed document that has 101
\* non-empty containers open at once.
C7_Witness ==
    /\ Finished("format")
    /\ result.kind = "MaxIndentLevel"
    /\ IsJson
    /\ ~IsJsonWithin(MAX_INDENT_LEVEL)

-----------------------------------------------------------------------------
(* C8: the indent level.                                                   *)

\* The containers that hold members and are not closed: the calls of
\* parse_object and parse_array that are past inc_level.
OpenContainers ==
    Cardinality({i \in 1..Len(stack) :
                    /\ stack[i].fn \in {"parse_object", "parse_array"}
                    /\ stack[i].pc \in {"loop", "colon"}})

\* C8: while format runs, the indent level is the number of non-empty
\* containers open, between 0 and 100; inc_level at level 100 returns
\* MaxIndentLevel and leaves the level as it is; dec_level is never executed at
\* level 0; the level is 0 when format returns Ok.
C8_LevelCountsOpenContainers ==
    /\ [](call = "format" =>
            /\ 0 <= level /\ level <= MAX_INDENT_LEVEL
            /\ result = Running => level = OpenContainers
            /\ result # Panic
            /\ result = Ok => level = 0)
    /\ [][(call = "format" /\ result'.kind = "MaxIndentLevel")
            => (level = MAX_INDENT_LEVEL /\ level' = level /\ result'.a = level)]_vars

\* inc_level refused the 101st object while 100 are open.
C8_Witness ==
    /\ Finished("format")
    /\ result.kind = "MaxIndentLevel"
    /\ level = MAX_INDENT_LEVEL
    /\ input[1] = B.lbrace

-----------------------------------------------------------------------------
(* C9: the cursor.                                                         *)

\* C9: during a format call the cursor never decreases from one step to the
\* next and is always within 0..len(input); no byte is read at an index at or
\* beyond len(input), by a slice index or by a span.
C9_CursorMonotoneInRange ==
    /\ [](call = "format" =>
            /\ 0 <= pos /\ pos <= Len(input)
            /\ ~oob
            /\ result # Panic
            /\ \A i \in 1..Len(stack) : stack[i].start <= pos)
    /\ [][call = "format" => pos' >= pos]_vars

\* A 2-byte input that ends inside an escape: format returns Eof with the
\* cursor at the end of the input.
C9_Witness ==
    /\ Finished("format")
    /\ input = <<B.quote, B.bslash>>
    /\ result = Eof
    /\ pos = Len(input)

-----------------------------------------------------------------------------
(* C10: format consumes the whole input.                                   *)

\* C10: whenever format returns Ok the cursor equals len(input); and when the
\* top-level value has been parsed and a byte other than space, LF, CR, TAB
\* follows it after optional whitespace, format returns InvalidByte with that
\* byte and its offset.
C10_FullConsumption ==
    /\ []((call = "format" /\ result = Ok) => pos = Len(input))
    /\ [][(call = "format" /\ At("format", "trail") /\ RefWs(pos) < Len(input))
            => result' = InvalidByte(ByteAt(RefWs(pos)), RefWs(pos))]_vars

\* `truex`: true is parsed, then format fails on `x` at offset 4.
C10_Witness ==
    /\ Finished("format")
    /\ input = <<B.t, B.r, B.u, B.e, B.x>>
    /\ result = InvalidByte(B.x, 4)
    /\ out = <<B.t, B.r, B.u, B.e>>

-----------------------------------------------------------------------------
(* C11: empty containers.                                                  *)

\* parse_object or parse_array has been called with the cursor on an opener
\* that is followed by whitespace, if any, and its closer.
AtEmptyContainer(open, close) ==
    /\ call = "format" /\ result = Running /\ stack # <<>>
    /\ Top.fn \in {"parse_object", "parse_array"} /\ Top.pc = "entry"
    /\ Has(pos, open)
    /\ Has(RefWs(pos + 1), close)

\* C11: at any nesting level, level 100 included, an opener followed by zero
\* or more whitespace bytes and its closer is written in Plain mode as the two
\* bytes `{}` or `[]`, with no change of the indent level and no
\* MaxIndentLevel error; the cursor is left after the closer.
C11_EmptyContainerCompact ==
    [][\A pair \in {<<B.lbrace, B.rbrace>>, <<B.lbracket, B.rbracket>>} :
          (AtEmptyContainer(pair[1], pair[2]) /\ color = "NoColor")
              => /\ out' = out \o pair
                 /\ level' = level
                 /\ pos' = RefWs(pos + 1) + 1
                 /\ result' \in {Running, Ok}]_vars

\* `{ }` has been written as `{}` while the indent level is 100.
C11_Witness ==
    /\ call = "format" /\ color = "NoColor"
    /\ level = MAX_INDENT_LEVEL
    /\ pos >= 3
    /\ SubSeq(input, pos - 2, pos) = <<B.lbrace, B.sp, B.rbrace>>
    /\ Len(out) >= 2
    /\ SubSeq(out, Len(out) - 1, Len(out)) = <<B.lbrace, B.rbrace>>

-----------------------------------------------------------------------------
(* C12: the layout of non-empty containers.                                *)

\* 2 * d spaces.
RefIndent(d) == [i \in 1..(2 * d) |-> 32]

\* What the token read by RefStep from state st is laid out as, d containers
\* with members being open: an opener of a non-empty container with the line
\* break and the indentation of its first member; a value as it is; a key
\* with `: `; a separator with the line break and the indentation of the next
\* member; a closer on a line of its own, indented one level less.
RefLaid(st) ==
    LET d == Len(st.open) IN
    CASE st.ex = "value" ->
             (CASE Has(st.p, 91) ->
                       IF Has(RefWs(st.p + 1), 93) THEN <<91, 93>>
                       ELSE <<91, 10>> \o RefIndent(d + 1)
                [] Has(st.p, 123) ->
                       IF Has(RefWs(st.p + 1), 125) THEN <<123, 125>>
                       ELSE <<123, 10>> \o RefIndent(d + 1)
                [] OTHER -> SubSeq(input, st.p + 1, RefScalar(st.p)))
      [] st.ex = "name" -> SubSeq(input, st.p + 1, RefString(st.p)) \o <<58, 32>>
      [] st.ex = "sep" ->
             IF Has(st.p, 44) THEN <<44, 10>> \o RefIndent(d)
             ELSE <<10>> \o RefIndent(d - 1) \o <<Head(st.open)>>
      [] OTHER -> <<>>

\* n tokens of a well-formed document from state st, laid out (the halves keep
\* the evaluation shallow).
RECURSIVE RefLayRun(_, _)
RefLayRun(n, st) ==
    IF n = 0 \/ st.ex \in {"end", "fail"} THEN [st |-> st, text |-> <<>>]
    ELSE IF n = 1
    THEN [st |-> RefStep(st, [cap |-> Len(input), all |-> FALSE]), text |-> RefLaid(st)]
    ELSE LET left == RefLayRun(n \div 2, st) IN
         IF left.st.ex \in {"end", "fail"} THEN left
         ELSE LET right == RefLayRun(n - (n \div 2), left.st)
              IN  [st |-> right.st, text |-> left.text \o right.text]

RefLayout ==
    LET start == IF HasBytes(0, <<239, 187, 191>>) THEN 3 ELSE 0
    IN  RefLayRun(Len(input) + 1, [p |-> RefWs(start), open |-> <<>>, ex |-> "value"]).text

\* C12: in Plain mode a non-empty container opened at indent level d is
\* written as the opener, LF, the members each preceded by 2*(d+1) spaces and
\* separated by `,` LF, then LF, 2*d spaces and the closer; an object member
\* is its key, `: ` and its value; the output never ends with a newline.
C12_Layout ==
    (Finished("format") /\ result = Ok /\ color = "NoColor")
        => /\ out = RefLayout
           /\ out # <<>>
           /\ out[Len(out)] # B.lf

\* `{"a":1}` gives `{` LF `  "a": 1` LF `}`.
C12_Witness ==
    /\ Finished("format") /\ result = Ok /\ color = "NoColor"
    /\ input = <<B.lbrace, B.quote, B.a, B.quote, B.colon, B.d1, B.rbrace>>
    /\ out = <<B.lbrace, B.lf, B.sp, B.sp, B.quote, B.a, B.quote, B.colon, B.sp,
               B.d1, B.lf, B.rbrace>>

-----------------------------------------------------------------------------
(* C13: the color mode changes the wrapping only.                          *)

\* ESC[1;39m ESC[1;34m ESC[0;32m ESC[0;33m ESC[0;35m ESC[0;36m ESC[0m
FixedSgr ==
    { <<27, 91, 49, 59, 51, 57, 109>>, <<27, 91, 49, 59, 51, 52, 109>>,
      <<27, 91, 48, 59, 51, 50, 109>>, <<27, 91, 48, 59, 51, 51, 109>>,
      <<27, 91, 48, 59, 51, 53, 109>>, <<27, 91, 48, 59, 51, 54, 109>>,
      <<27, 91, 48, 109>> }

\* Every ESC of seq starts one of the fixed sequences.
OnlyFixedSgr(seq) ==
    \A i \in 1..Len(seq) :
        seq[i] = 27 =>
            \E s \in FixedSgr :
                i + Len(s) - 1 <= Len(seq) /\ SubSeq(seq, i, i + Len(s) - 1) = s

\* seq[lo..hi] with the sequences ESC ... m deleted, scanned from state st
\* ("txt", or "sgr" inside a sequence).
RECURSIVE UnwrapSeg(_, _, _, _)
UnwrapSeg(seq, lo, hi, st) ==
    IF lo > hi THEN [st |-> st, text |-> <<>>]
    ELSE IF lo = hi
    THEN (IF st = "txt" /\ seq[lo] # 27 THEN [st |-> "txt", text |-> <<seq[lo]>>]
          ELSE [st |-> IF st = "sgr" /\ seq[lo] = 109 THEN "txt" ELSE "sgr",
                text |-> <<>>])
    ELSE LET left == UnwrapSeg(seq, lo, (lo + hi) \div 2, st) IN
         IF left.st \notin {"txt", "sgr"} THEN left
         ELSE LET right == UnwrapSeg(seq, ((lo + hi) \div 2) + 1, hi, left.st)
              IN  [st |-> right.st, text |-> left.text \o right.text]

Unwrap(seq) == UnwrapSeg(seq, 1, Len(seq), "txt").text

\* C13: format in AnsiCode mode returns what format in NoColor mode returns on
\* the same input (Ok, or the same error with the same byte and offset), and
\* the AnsiCode output with the fixed escape sequences deleted is the NoColor
\* output, on success and on failure alike.
C13_ColorOnlyWraps ==
    (call = "format" /\ color = "AnsiCode" /\ prev # NoRun /\ result # Running)
        => /\ result = prev.result
           /\ OnlyFixedSgr(out)
           /\ Unwrap(out) = prev.out

\* Both runs failed after writing a key and a name separator.
C13_Witness ==
    /\ call = "format" /\ color = "AnsiCode" /\ prev # NoRun
    /\ IsErr(result)
    /\ Len(prev.out) >= 4
    /\ SubSeq(prev.out, Len(prev.out) - 1, Len(prev.out)) = <<B.colon, B.sp>>
    /\ Len(out) > Len(prev.out)

-----------------------------------------------------------------------------
(* C14: the offset of InvalidByte.                                         *)

\* The input is a string that holds a raw LF at offset k after plain
\* characters only.
RawLfAt(k) ==
    /\ 1 <= k /\ k < Len(input)
    /\ ByteAt(0) = 34
    /\ ByteAt(k) = 10
    /\ \A j \in 1..(k - 1) : ByteAt(j) \in (32..127) \ {34, 92}

\* C14: whenever format returns InvalidByte(b, off), off is the offset of the
\* offending byte itself: off < len(input) and input[off] = b.  A string with
\* a raw LF fails with InvalidByte(0x0A, offset of the LF); the same string
\* with the escape `\n` is accepted and written as it is.
C14_InvalidByteOffset ==
    Finished("format") =>
        /\ result.kind = "InvalidByte" =>
               /\ 0 <= result.off /\ result.off < Len(input)
               /\ ByteAt(result.off) = result.a
        /\ \A k \in 1..(Len(input) - 1) : RawLfAt(k) => result = InvalidByte(10, k)
        /\ (input = <<34, 92, 110, 34>> /\ color = "NoColor")
               => (result = Ok /\ out = input)

\* The string `" ` LF fails on the LF at offset 2.
C14_Witness ==
    /\ Finished("format")
    /\ input = <<B.quote, B.sp, B.lf>>
    /\ result = InvalidByte(B.lf, 2)

-----------------------------------------------------------------------------
(* C15: the offset of InvalidEscape.                                       *)

\* C15: whenever format returns InvalidEscape(b, off), b is a byte that
\* follows a backslash and is none of `"` `\` `/` b f n r t u, and off is the
\* offset of that byte itself: input[off] = b and input[off - 1] is the
\* backslash.
C15_InvalidEscapeOffset ==
    (Finished("format") /\ result.kind = "InvalidEscape")
        => /\ 1 <= result.off /\ result.off < Len(input)
           /\ ByteAt(result.off) = result.a
           /\ ByteAt(result.off - 1) = 92
           /\ result.a \notin {34, 92, 47, 98, 102, 110, 114, 116, 117}

-----------------------------------------------------------------------------
(* C16: format called twice on one Formatter.                              *)

\* C16: a second call of format on the same Formatter, with a fresh sink,
\* returns what the first call returned and writes what it wrote, and the
\* debug assertion `pos == 0` of skip_start_bom holds when it starts.
C16_SecondCallSame ==
    /\ (call = "format" /\ prev # NoRun /\ At("format", "entry")) => pos = 0
    /\ (call = "format" /\ prev # NoRun /\ result # Running)
           => (result = prev.result /\ out = prev.out)

-----------------------------------------------------------------------------
(* C17: termination.                                                       *)

\* What a call in progress can still do without moving the cursor: the
\* statements left before it must read a byte or return, and the calls it
\* makes before that.  A call of next_utf8_char is made without moving the
\* cursor and always moves it, or fails.
FrameWeight(f) ==
    CASE f.fn = "format" -> IF f.pc = "entry" THEN 8 ELSE 1
      [] f.fn = "parse_value" -> 6
      [] f.fn = "parse_number" ->
             (CASE f.pc = "entry" -> 5
                [] f.pc = "integer" -> 4
                [] f.pc = "fraction" -> 3
                [] f.pc = "exponent" -> 2
                [] OTHER -> 1)
      [] f.fn \in {"parse_object", "parse_array"} ->
             IF f.pc = "loop" /\ f.first THEN 8 ELSE 1
      [] f.fn = "parse_string" -> 2
      [] f.fn = "next_utf8_char" -> 0 - 1
      [] OTHER -> 1

\* The sum of the weights of the frames lo..hi of the stack.
RECURSIVE StackWeight(_, _)
StackWeight(lo, hi) ==
    IF lo > hi THEN 0
    ELSE IF lo = hi THEN FrameWeight(stack[lo])
    ELSE LET mid == (lo + hi) \div 2 IN
         StackWeight(lo, mid) + StackWeight(mid + 1, hi)

\* A number that every step of a running call makes smaller: 16 for each
\* byte after the cursor, and the weights of the calls in progress.
Rank == 16 * (Len(input) - pos) + StackWeight(1, Len(stack))

\* C17: in either color mode a running call of format can always take a
\* step that changes its state, and every step it takes moves the cursor
\* forward or uses up what can be done without moving it; so it returns, Ok
\* or an error, after at most 16 * len(input) + 8 steps.
C17_Terminates ==
    /\ [](At("format", "entry") => Rank = 16 * Len(input) + 8)
    /\ []((call = "format" /\ result = Running) => ENABLED <<Next>>_vars)
    /\ [][(call = "format" /\ result = Running) => Rank' \in 0..(Rank - 1)]_vars

\* A call in AnsiCode mode has returned from a document with a string, a
\* number and a container at the end of its input.
C17_Witness ==
    /\ Finished("format") /\ color = "AnsiCode"
    /\ result = Ok
    /\ pos = Len(input)
    /\ Len(input) >= 8
    /\ \E i \in 1..Len(input) : input[i] = B.quote
    /\ \E i \in 1..Len(input) : input[i] = B.d1
    /\ Rank = 0

-----------------------------------------------------------------------------
(* C18: the cursor after a failed call of next_utf8_char.                  *)

\* C18: when next_utf8_char, called with the cursor at 0, returns InvalidUtf8
\* or Eof, the cursor is still at 0.
C18_CursorKeptOnError ==
    (Finished("next_utf8_char") /\ IsErr(result)) => pos = 0

-----------------------------------------------------------------------------
(* C19: InvalidUtf8 against Eof.                                           *)

\* The length of the sequence a lead byte 0xC2..0xF4 announces.
LeadLength(b1) == IF b1 < 224 THEN 2 ELSE IF b1 < 240 THEN 3 ELSE 4

IsLead(b1) == b1 \in 194..244

\* The offsets after the lead at p that belong to its sequence and lie in the
\* input.
TailIn(p, n) == { q \in (p + 1)..(p + n - 1) : q < Len(input) }

\* The sequence at p has a byte that is no lead where a lead is required, or
\* a byte outside 0x80..0xBF where a continuation byte is required.
HasBadByte(p) ==
    /\ p < Len(input)
    /\ ByteAt(p) >= 128
    /\ \/ ~IsLead(ByteAt(p))
       \/ \E q \in TailIn(p, LeadLength(ByteAt(p))) : ByteAt(q) \notin 128..191

\* The input ends inside the sequence at p, and the bytes it has are a lead
\* and continuation bytes.
EndsInside(p) ==
    /\ p < Len(input)
    /\ IsLead(ByteAt(p))
    /\ p + LeadLength(ByteAt(p)) > Len(input)
    /\ \A q \in TailIn(p, LeadLength(ByteAt(p))) : ByteAt(q) \in 128..191

\* C19: a call of next_utf8_char on a sequence with a bad byte fails with
\* InvalidUtf8, however many bytes follow, and a call that fails with Eof was
\* made at the end of the input or on a sequence of valid bytes that the
\* input cuts short.
C19_InvalidUtf8NotEof ==
    [][At("next_utf8_char", "entry") =>
           /\ HasBadByte(pos) => result'.kind = "InvalidUtf8"
           /\ result' = Eof => (pos = Len(input) \/ EndsInside(pos))]_vars

-----------------------------------------------------------------------------
(* C20: the offset and the bytes of InvalidUtf8.                           *)

\* C20: InvalidUtf8(bytes, n, off) returned by format names n bytes of the
\* input, those at the offsets off..off+n-1.
C20_InvalidUtf8Offset ==
    (Finished("format") /\ result.kind = "InvalidUtf8") =>
        /\ result.off + result.a <= Len(input)
        /\ \A i \in 0..(result.a - 1) :
               /\ result.off + i < Len(input)
               /\ ByteAt(result.off + i) = result.bytes[i + 1]

-----------------------------------------------------------------------------
(* C21: a comma with no member after it.                                   *)

\* What can follow the first member of a container: separators, blanks,
\* closers, a string, digits, a byte that starts no value.
MemberTokens ==
    { <<B.comma>>, <<B.sp>>, <<B.rbracket>>, <<B.rbrace>>, Str_a, <<B.d0>>, <<B.d1>>,
      <<B.x>> }

\* A container with its first member read.
MemberContexts == { <<B.lbracket, B.d1>>, ObjOpener \o <<B.d1>> }

InitMembers ==
    \/ InitShallow
    \/ \E ctx \in MemberContexts, ts \in SeqsUpTo(MemberTokens, MaxLexLen) :
           New(ctx \o Flatten(ts), "NoColor", "format")

SpecMembers == InitMembers /\ [][Next]_vars

\* The cursor p stands after a comma and the blanks that follow it.
AfterComma(p) ==
    \E c \in 0..(p - 1) :
        /\ ByteAt(c) = B.comma
        /\ \A k \in (c + 1)..(p - 1) : IsWhitespace(ByteAt(k))

\* The offset after the comma that the cursor p stands behind.
CommaEnd(p) ==
    (CHOOSE c \in 0..(p - 1) :
        /\ ByteAt(c) = B.comma
        /\ \A k \in (c + 1)..(p - 1) : IsWhitespace(ByteAt(k))) + 1

\* The member loop of an array has read a comma and calls parse_value for the
\* next element.
ElementAfterComma ==
    /\ At("parse_value", "entry")
    /\ Len(stack) >= 2 /\ stack[2].fn = "parse_array"
    /\ AfterComma(pos)

\* The member loop of an object has read a comma and calls parse_string for
\* the next key.
KeyAfterComma ==
    /\ At("parse_string", "entry")
    /\ Top.mode = "Key"
    /\ AfterComma(pos)

\* No member starts at the cursor.
NoMemberAt(p) ==
    IF ElementAfterComma
    THEN p >= Len(input) \/ ValueTarget(ByteAt(p)) = "none"
    ELSE p >= Len(input) \/ ByteAt(p) # B.quote

\* The syntax error for the byte at offset p: Eof at the end of the input.
SyntaxErrorAt(p) ==
    IF p >= Len(input) THEN Eof ELSE InvalidByte(ByteAt(p), p)

\* C21 as stated: the offset reported is the position immediately following the
\* comma.
C21_OffsetAfterComma ==
    [][((ElementAfterComma \/ KeyAfterComma) /\ NoMemberAt(pos))
           => /\ result' \in {Eof, InvalidByte(result'.a, result'.off)}
              /\ result'.kind = "InvalidByte" => result'.off = CommaEnd(pos)]_vars

\* C21, amended: in an object or an array, a comma followed, after optional
\* blanks, by the closer, by any other byte that starts no member or by the
\* end of the input makes format fail: with Eof at the end of the input, else
\* with InvalidByte carrying the first byte after the comma that is no blank,
\* and the offset of that byte.
C21_TrailingCommaRejected ==
    [][((ElementAfterComma \/ KeyAfterComma) /\ NoMemberAt(pos))
           => /\ pos < Len(input) => ~IsWhitespace(ByteAt(pos))
              /\ result' = SyntaxErrorAt(pos)]_vars

\* format has failed on an object whose comma is followed by a blank and the
\* closer, with the offset of the closer.
C21_Witness ==
    /\ Finished("format")
    /\ input = ObjOpener \o <<B.d1, B.comma, B.sp, B.rbrace>>
    /\ result = InvalidByte(B.rbrace, Len(input) - 1)

-----------------------------------------------------------------------------
(* C22: the spans passed to slice_str_unchecked.                           *)

\* seq is well-formed UTF-8: a concatenation of encodings of scalar values.
RECURSIVE IsValidUtf8(_)
IsValidUtf8(seq) ==
    \/ seq = <<>>
    \/ \E n \in 1..4 :
           /\ n <= Len(seq)
           /\ IsScalarEncoding(SubSeq(seq, 1, n))
           /\ IsValidUtf8(SubSeq(seq, n + 1, Len(seq)))

\* parse_string is about to slice [start, pos + 1): the closing quote is at the
\* cursor.
StringSpan == At("parse_string", "scan") /\ peek_byte(pos) = B.quote

\* parse_number is about to slice [start, pos).
NumberSpan == At("parse_number", "write")

NumberChars == {B.minus, B.plus, B.dot, B.e, B.upE} \cup (B.d0..B.d9)

\* The bytes of the input at the offsets start..end-1, read from the input
\* alone.
SpanBytes(start, end) == [i \in 1..(end - start) |-> ByteAt(start + i - 1)]

\* C22: every span that parse_string and parse_number pass to
\* slice_str_unchecked has start <= end <= len(input) and holds well-formed
\* UTF-8; a string span begins and ends with a quote, a number span holds only
\* bytes of -+.eE0-9; and the debug assertions never fail.
C22_SpanSound ==
    /\ result # Panic
    /\ StringSpan =>
           /\ SpanOk(Top.start, pos + 1)
           /\ pos + 1 - Top.start >= 2
           /\ ByteAt(Top.start) = B.quote
           /\ ByteAt(pos) = B.quote
           /\ IsValidUtf8(SpanBytes(Top.start, pos + 1))
    /\ NumberSpan =>
           /\ SpanOk(Top.start, pos)
           /\ IsValidUtf8(SpanBytes(Top.start, pos))
           /\ \A q \in Top.start..(pos - 1) : ByteAt(q) \in NumberChars

\* parse_string is about to slice a span that holds a 4-byte character.
C22_Witness ==
    /\ StringSpan
    /\ pos - Top.start = 5
    /\ ByteAt(Top.start + 1) = 240

-----------------------------------------------------------------------------
(* C23: leading zeros.                                                     *)

\* The integer part at the cursor p is a zero with a digit right after it.
ZeroThenDigit(p) == peek_byte(p) = B.d0 /\ IsDigit(peek_byte(p + 1))

\* The bytes that continue a number before a digit of it.
InsideNumber == (B.d0..B.d9) \cup {B.dot, B.e, B.upE, B.plus}

\* A number starts at offset q, or at the minus before it, with a zero and a
\* digit right after it.
LeadingZeroAt(q) ==
    /\ q >= 0
    /\ q + 1 < Len(input)
    /\ ByteAt(q) = B.d0
    /\ ByteAt(q + 1) \in B.d0..B.d9
    /\ \/ q = 0
       \/ ByteAt(q - 1) \notin InsideNumber \cup {B.minus}
       \/ ByteAt(q - 1) = B.minus /\ (q = 1 \/ ByteAt(q - 2) \notin {B.e, B.upE})

\* The offset q lies outside every string of an input without escapes.
OutsideStrings(q) ==
    Cardinality({k \in 0..(q - 1) : ByteAt(k) = B.quote}) % 2 = 0

\* parse_number has returned to format or to a member loop, with the cursor
\* on the digit that follows a leading zero.
BackFromLeadingZero ==
    /\ \/ At("format", "trail")
       \/ At("parse_array", "loop")
       \/ At("parse_object", "loop")
    /\ pos >= 1
    /\ LeadingZeroAt(pos - 1)
    /\ OutsideStrings(pos - 1)

\* C23: a number that begins with 0 or -0 and a digit, at top level, as an
\* array element or as an object member value, is scanned up to its zero and
\* written as 0 or -0; the step of format or of the member loop that follows
\* fails with InvalidByte carrying the digit after the zero and its offset; and
\* no document accepted has such a number.
C23_LeadingZeroRejected ==
    /\ []((Finished("format") /\ result = Ok /\ \A k \in 1..Len(input) : input[k] # B.bslash)
             => ~\E q \in 0..(Len(input) - 1) : LeadingZeroAt(q) /\ OutsideStrings(q))
    /\ [][/\ (At("parse_number", "integer") /\ ZeroThenDigit(pos)) =>
                 /\ pos' = pos + 1
                 /\ At("parse_number", "fraction")'
          /\ (At("parse_number", "fraction") /\ LeadingZeroAt(pos - 1)) =>
                 /\ pos' = pos
                 /\ At("parse_number", "exponent")'
          /\ (At("parse_number", "exponent") /\ LeadingZeroAt(pos - 1)) =>
                 /\ pos' = pos
                 /\ At("parse_number", "write")'
          /\ (At("parse_number", "write") /\ LeadingZeroAt(pos - 1)) =>
                 /\ pos' = pos
                 /\ out' = out \o write_number(SpanBytes(Top.start, pos))
                 /\ pos - Top.start \in {1, 2}
                 /\ BackFromLeadingZero'
          /\ BackFromLeadingZero => result' = InvalidByte(ByteAt(pos), pos)]_vars

\* format has failed on the second element 01 of an array, with the digit
\* after the zero and its offset.
C23_Witness ==
    /\ Finished("format")
    /\ input = <<B.lbracket, B.d1, B.comma, B.d0, B.d1, B.rbracket>>
    /\ result = InvalidByte(B.d1, 4)

====
